---- MODULE Spec2Model ----
(***************************************************************************)
(* Model of fetch_and_build.py: the command-line selection of fiscal       *)
(* years, the paginated fetch of transactions per agency, the CSV writer   *)
(* and the totals / summary printing.                                      *)
(*                                                                         *)
(* JSON values are tagged records ([t |-> "null"], [t |-> "int", v |-> 7], *)
(* ...), Python dicts are functions whose DOMAIN is the set of keys that   *)
(* are present (an object also keeps its keys in insertion order),         *)
(* command-line tokens are sequences of code points.                       *)
(***************************************************************************)
EXTENDS Integers, Sequences, FiniteSets, TLC

VARIABLES argv, pc, exc, dir_exists, files, years_to_fetch, yi, results,
          fy, ai, cbp_data, ice_data, page, all_results,
          reqs, served, remote_left, trace, fs0

vars == <<argv, pc, exc, dir_exists, files, years_to_fetch, yi, results,
          fy, ai, cbp_data, ice_data, page, all_results,
          reqs, served, remote_left, trace, fs0>>

(* ------------------------------ bounds --------------------------------- *)
\* most records the remote source serves during one run of selected years
MaxRecords == 2
\* most records the remote source serves during one run of any command line
MaxRunRecords == 1
\* most command-line arguments after the script name
MaxArgs == 2

(* --------------------------- JSON / Python ----------------------------- *)
JNull == [t |-> "null"]
JBool(b) == [t |-> "bool", v |-> b]
JInt(n) == [t |-> "int", v |-> n]
JStr(s) == [t |-> "str", v |-> s]
JList(s) == [t |-> "list", v |-> s]

\* A JSON object is given by its members, a sequence of <<key, value>> pairs
\* in the order of the document.  As in a Python dict a key that occurs
\* again keeps its first place and takes the later value.
FirstPlaces(ps) == { i \in 1..Len(ps) : \A j \in 1..(i - 1) : ps[j][1] # ps[i][1] }

\* the keys in insertion order
KeyOrder(ps) ==
    LET F == FirstPlaces(ps)
    IN [r \in 1..Cardinality(F) |->
           ps[CHOOSE i \in F : Cardinality({ j \in F : j <= i }) = r][1]]

\* the dict as a function from the keys present
KeyValues(ps) ==
    [key \in { ps[i][1] : i \in 1..Len(ps) } |->
        ps[CHOOSE i \in 1..Len(ps) :
              /\ ps[i][1] = key
              /\ \A j \in (i + 1)..Len(ps) : ps[j][1] # key][2]]

JObj(ps) == [t |-> "obj", k |-> KeyOrder(ps), v |-> KeyValues(ps)]

EmptyDict == <<>>

\* dict.get(key, default)
Get(d, key, default) == IF key \in DOMAIN d THEN d[key] ELSE default

\* Python truth value of a JSON value
Truthy(x) ==
    CASE x.t = "null" -> FALSE
      [] x.t = "bool" -> x.v
      [] x.t = "int" -> x.v # 0
      [] x.t = "str" -> x.v # ""
      [] x.t = "list" -> Len(x.v) > 0
      [] x.t = "obj" -> DOMAIN x.v # {}

\* the text csv.writer puts in a cell: None is written as the empty string,
\* everything else through str()
FormatCell(x) ==
    CASE x.t = "null" -> ""
      [] x.t = "int" -> ToString(x.v)
      [] x.t = "str" -> x.v
      [] x.t = "bool" -> IF x.v THEN "True" ELSE "False"

(* ---------------------------- configuration ---------------------------- *)
FISCAL_YEARS ==
    [y \in 2021..2026 |->
        [start |-> ToString(y - 1) \o "-10-01", end |-> ToString(y) \o "-09-30"]]

\* the agencies in the other order
AGENCIES_IceFirst ==
    << <<"ICE", "U.S. Immigration and Customs Enforcement">>,
       <<"CBP", "U.S. Customs and Border Protection">> >>

AGENCIES ==
    << <<"CBP", "U.S. Customs and Border Protection">>,
       <<"ICE", "U.S. Immigration and Customs Enforcement">> >>

Header ==
    <<"Agency", "Award ID", "Recipient Name", "Federal Action Obligation",
      "Action Date", "Modification", "Product/Service Description",
      "NAICS Description", "Transaction Description">>

AmountColumn == 4

(* ------------------------- command-line tokens ------------------------- *)
\* A character is its Unicode code point (Python's ord), a token is the
\* sequence of the code points of one command-line argument.

\* the printable ASCII characters from code point 32 to 95, and from 97
\* to 126
AsciiLow ==
    " !\"#$%&'()*+,-./0123456789:;<=>?@ABCDEFGHIJKLMNOPQRSTUVWXYZ[\\]^_"

AsciiHigh == "abcdefghijklmnopqrstuvwxyz{|}~"

Index(str, c) == CHOOSE i \in 1..Len(str) : SubSeq(str, i, i) = c

\* ord(c) of a printable ASCII character
Ord(c) ==
    IF \E i \in 1..Len(AsciiLow) : SubSeq(AsciiLow, i, i) = c
    THEN 31 + Index(AsciiLow, c)
    ELSE 96 + Index(AsciiHigh, c)

\* the token of an ASCII string
OrdSeq(str) == [i \in 1..Len(str) |-> Ord(SubSeq(str, i, i))]

\* the digit zero of every script of Unicode 14 (general category Nd); the
\* digits one to nine of a script follow its zero
DecimalZeros ==
    { 48, 1632, 1776, 1984, 2406, 2534, 2662, 2790, 2918, 3046,
      3174, 3302, 3430, 3558, 3664, 3792, 3872, 4160, 4240, 6112,
      6160, 6470, 6608, 6784, 6800, 6992, 7088, 7232, 7248, 42528,
      43216, 43264, 43472, 43504, 43600, 44016, 65296, 66720, 68912, 69734,
      69872, 69942, 70096, 70384, 70736, 70864, 71248, 71360, 71472, 71904,
      72016, 72784, 73040, 73120, 92768, 92864, 93008, 120782, 120792, 120802,
      120812, 120822, 123200, 123632, 125264, 130032 }

\* the characters str.isdecimal() accepts; int() reads each as its digit
DecimalChars == UNION { z..(z + 9) : z \in DecimalZeros }

\* the characters str.isdigit() accepts and int() rejects: superscripts,
\* subscripts, circled and parenthesized digits and the like
OtherDigitChars ==
          (178..179) \cup {185} \cup (4969..4977) \cup {6618} \cup {8304}
     \cup (8308..8313) \cup (8320..8329) \cup (9312..9320) \cup (9332..9340)
     \cup (9352..9360) \cup {9450} \cup (9461..9469) \cup {9471}
     \cup (10102..10110) \cup (10112..10120) \cup (10122..10130)
     \cup (68160..68163) \cup (69216..69224) \cup (69714..69722)
     \cup (127232..127242)

\* the characters str.isdigit() accepts
DigitChars == DecimalChars \cup OtherDigitChars

DigitValue(c) == c - (CHOOSE z \in DecimalZeros : c \in z..(z + 9))

\* sys.argv[1].lower() == 'all': of all characters only "A" and "a" lower to
\* "a", only "L" and "l" lower to "l", and none lowers to a longer string
\* holding one of them
LowersToAll(s) ==
    /\ Len(s) = 3
    /\ s[1] \in {Ord("A"), Ord("a")}
    /\ s[2] \in {Ord("L"), Ord("l")}
    /\ s[3] \in {Ord("L"), Ord("l")}

\* str.isdigit()
IsDigit(s) == Len(s) > 0 /\ \A i \in 1..Len(s) : s[i] \in DigitChars

\* int(): surrounding whitespace is stripped, one sign may lead, single
\* underscores may separate digits.  The whitespace int() strips: tab to
\* carriage return, space, next line, no-break space and the Unicode spaces
\* and separators
WhiteChars ==
    { 9, 10, 11, 12, 13, 32, 133, 160, 5760, 8192,
      8193, 8194, 8195, 8196, 8197, 8198, 8199, 8200, 8201, 8202,
      8232, 8233, 8239, 8287, 12288 }

\* the positions of the characters of s that are not whitespace
Inked(s) == { i \in 1..Len(s) : s[i] \notin WhiteChars }

Least(S) == CHOOSE i \in S : \A j \in S : i <= j

Greatest(S) == CHOOSE i \in S : \A j \in S : j <= i

StripLeft(s) == IF Inked(s) = {} THEN <<>> ELSE SubSeq(s, Least(Inked(s)), Len(s))

StripRight(s) == IF Inked(s) = {} THEN <<>> ELSE SubSeq(s, 1, Greatest(Inked(s)))

Strip(s) == StripRight(StripLeft(s))

IntSign(s) == IF Strip(s) # <<>> /\ Strip(s)[1] = Ord("-") THEN -1 ELSE 1

\* the literal without whitespace and sign
IntBody(s) ==
    LET t == Strip(s)
    IN IF t # <<>> /\ t[1] \in {Ord("+"), Ord("-")} THEN Tail(t) ELSE t

IntDigits(s) == SelectSeq(IntBody(s), LAMBDA c : c \in DecimalChars)

\* sys.int_max_str_digits of CPython 3.11 and later: int() refuses a
\* literal with more decimal digits
IntMaxStrDigits == 4300

\* int(s) raises ValueError
IntRaises(s) ==
    LET b == IntBody(s)
    IN \/ b = <<>>
       \/ b[1] \notin DecimalChars
       \/ b[Len(b)] \notin DecimalChars
       \/ \E i \in 1..Len(b) : b[i] \notin DecimalChars \cup {Ord("_")}
       \/ \E i \in 1..(Len(b) - 1) : b[i] = Ord("_") /\ b[i + 1] = Ord("_")
       \/ Len(IntDigits(s)) > IntMaxStrDigits

\* the digits of the literal from its first digit that is not a zero
Significant(s) ==
    LET ds == IntDigits(s)
        nz == { i \in 1..Len(ds) : DigitValue(ds[i]) # 0 }
    IN IF nz = {} THEN <<>> ELSE SubSeq(ds, Least(nz), Len(ds))

\* the widest literal whose value is computed: a literal with more
\* significant digits is at least 10^9
IntWidth == 9

RECURSIVE DigitsValue(_)
DigitsValue(ds) ==
    IF Len(ds) = 0 THEN 0
    ELSE 10 * DigitsValue(SubSeq(ds, 1, Len(ds) - 1)) + DigitValue(ds[Len(ds)])

\* int(s) where it does not raise and has at most IntWidth significant digits
IntOf(s) == IntSign(s) * DigitsValue(Significant(s))

\* the year 2026 in Arabic-Indic digits
ArabicIndic2026 == <<1634, 1632, 1634, 1638>>

\* superscript two
SuperscriptTwo == <<178>>

Tokens ==
    { OrdSeq("all"), OrdSeq("ALL"), OrdSeq("2026"), OrdSeq("2025"),
      OrdSeq("2099"), ArabicIndic2026, SuperscriptTwo }

RECURSIVE SeqsUpTo(_, _)
SeqsUpTo(S, n) ==
    IF n = 0 THEN { <<>> }
    ELSE LET shorter == SeqsUpTo(S, n - 1)
         IN shorter \cup { Append(s, x) : s \in shorter, x \in S }

ArgLists == SeqsUpTo(Tokens, MaxArgs)

YearTokens == { ArabicIndic2026, OrdSeq("2025") }

YearArgLists == SeqsUpTo(YearTokens, MaxArgs)

(* --------------------------- remote source ----------------------------- *)
RemoteRecords ==
    { JObj(<< <<"Award ID", JStr("A2")>>, <<"Transaction Amount", JInt(-12)>> >>),
      JObj(<< <<"Award ID", JStr("A3")>>, <<"Transaction Amount", JNull>> >>),
      JObj(<< <<"Award ID", JStr("A4")>> >>) }

MetaOptions ==
    { EmptyDict,
      << <<"page_metadata", JNull>> >>,
      << <<"page_metadata", JObj(<< <<"hasNext", JBool(TRUE)>> >>)>> >>,
      << <<"page_metadata", JObj(<< <<"hasNext", JBool(FALSE)>> >>)>> >> }

\* an object where a list of records is expected
KeyedResults == JObj(<< <<"b", JInt(1)>>, <<"a", JInt(2)>> >>)

\* the results key: absent, null, a list of records, or a string or an
\* object where a list is expected
ResultsOptions(left) ==
    { EmptyDict, << <<"results", JNull>> >>, << <<"results", JStr("")>> >>,
      << <<"results", JObj(EmptyDict)>> >> }
    \cup { << <<"results", JList(s)>> >> : s \in SeqsUpTo(RemoteRecords, left) }
    \cup (IF left >= 1 THEN { << <<"results", JStr("a")>> >> } ELSE {})
    \cup (IF left >= 2 THEN { << <<"results", KeyedResults>> >> } ELSE {})

\* what one POST can produce: an exception raised by the request, the status
\* check or the JSON decoding, or a decoded JSON body
Responses(left) ==
    { [kind |-> "exc"], [kind |-> "json", body |-> JList(<<>>)] }
    \cup { [kind |-> "json", body |-> JObj(r \o m)] :
              r \in ResultsOptions(left), m \in MetaOptions }

(* ------------------------------ file system ---------------------------- *)
NoFile == [exists |-> FALSE, rows |-> <<>>]

\* a CSV left by an earlier run
OldFile ==
    [exists |-> TRUE,
     rows |-> << Header,
                 <<"CBP", "OLD1", "", "5", "", "", "", "", "">>,
                 <<"CBP", "OLD2", "", "1", "", "", "", "", "">>,
                 <<"ICE", "OLD3", "", "2", "", "", "", "", "">> >>]

\* the output directory after an earlier run for FY2026
AfterEarlierRun ==
    [dir |-> TRUE,
     files |-> [y \in DOMAIN FISCAL_YEARS |-> IF y = 2026 THEN OldFile ELSE NoFile]]

InitialFileSystems ==
    { [dir |-> FALSE, files |-> [y \in DOMAIN FISCAL_YEARS |-> NoFile]],
      [dir |-> TRUE, files |-> [y \in DOMAIN FISCAL_YEARS |-> NoFile]],
      AfterEarlierRun }

(* ------------------------------- helpers ------------------------------- *)
RECURSIVE SortedDesc(_)
SortedDesc(S) ==
    IF S = {} THEN <<>>
    ELSE LET m == CHOOSE x \in S : \A y \in S : y <= x
         IN <<m>> \o SortedDesc(S \ {m})

SetMax(S) == CHOOSE x \in S : \A y \in S : y <= x

(* ------------------------------ main() --------------------------------- *)
\* the condition of the list comprehension at line 166, for one token
Recognized(y) ==
    /\ IsDigit(y) /\ ~IntRaises(y)
    /\ Len(Significant(y)) <= IntWidth
    /\ IntOf(y) \in DOMAIN FISCAL_YEARS

\* the comprehension evaluates int(y) for every token that passes isdigit()
SelectionRaises(args) == \E i \in 1..Len(args) : IsDigit(args[i]) /\ IntRaises(args[i])

RECURSIVE SelectYears(_)
SelectYears(args) ==
    IF args = <<>> THEN <<>>
    ELSE (IF Recognized(args[1]) THEN <<IntOf(args[1])>> ELSE <<>>)
         \o SelectYears(Tail(args))

IsAll(args) == Len(args) > 0 /\ LowersToAll(args[1])

InitWith(arglists, quota, filesystems) ==
    /\ argv \in arglists
    /\ remote_left = quota
    /\ fs0 \in filesystems
    /\ dir_exists = fs0.dir
    /\ files = fs0.files
    /\ pc = "start"
    /\ exc = "none"
    /\ years_to_fetch = <<>>
    /\ yi = 1
    /\ results = <<>>
    /\ fy = 0
    /\ ai = 1
    /\ cbp_data = <<>>
    /\ ice_data = <<>>
    /\ page = 1
    /\ all_results = <<>>
    /\ reqs = <<>>
    /\ served = <<>>
    /\ trace = <<>>

\* a run with any command line
Init == InitWith(ArgLists, MaxRunRecords, InitialFileSystems)

\* a run whose command line names recognized years only (or nothing), over
\* the output directory of an earlier run
InitYears == InitWith(YearArgLists, MaxRecords, {AfterEarlierRun})

RunLocals == <<fy, ai, cbp_data, ice_data, page, all_results, reqs, served, remote_left>>

\* lines 153, 161-163: "all" as first argument, in any letter case
MainAll ==
    /\ pc = "start"
    /\ IsAll(argv)
    /\ dir_exists' = TRUE
    /\ years_to_fetch' = SortedDesc(DOMAIN FISCAL_YEARS)
    /\ pc' = "year"
    /\ UNCHANGED <<argv, exc, files, yi, results, RunLocals, trace, fs0>>

\* lines 153, 164-166: explicit years, at least one of them recognized
MainYears ==
    /\ pc = "start"
    /\ Len(argv) > 0 /\ ~IsAll(argv)
    /\ ~SelectionRaises(argv)
    /\ SelectYears(argv) # <<>>
    /\ dir_exists' = TRUE
    /\ years_to_fetch' = SelectYears(argv)
    /\ pc' = "year"
    /\ UNCHANGED <<argv, exc, files, yi, results, RunLocals, trace, fs0>>

\* lines 153, 167-172: nothing recognized, usage message and return
MainUsage ==
    /\ pc = "start"
    /\ Len(argv) > 0 /\ ~IsAll(argv)
    /\ ~SelectionRaises(argv)
    /\ SelectYears(argv) = <<>>
    /\ dir_exists' = TRUE
    /\ trace' = Append(trace, [ev |-> "usage"])
    /\ pc' = "done"
    /\ UNCHANGED <<argv, exc, files, years_to_fetch, yi, results, RunLocals, fs0>>

\* lines 153, 166: int() raises on a token that isdigit() accepted
MainValueError ==
    /\ pc = "start"
    /\ Len(argv) > 0 /\ ~IsAll(argv)
    /\ SelectionRaises(argv)
    /\ dir_exists' = TRUE
    /\ exc' = "ValueError"
    /\ pc' = "crashed"
    /\ UNCHANGED <<argv, files, years_to_fetch, yi, results, RunLocals, trace, fs0>>

\* lines 153, 173-178: no argument, the most recent year
MainDefault ==
    /\ pc = "start"
    /\ Len(argv) = 0
    /\ dir_exists' = TRUE
    /\ years_to_fetch' = <<SetMax(DOMAIN FISCAL_YEARS)>>
    /\ pc' = "year"
    /\ UNCHANGED <<argv, exc, files, yi, results, RunLocals, trace, fs0>>

(* ------------------------- fetch_fiscal_year() ------------------------- *)
\* lines 181-182, 112-125: next selected year, first agency, entry of
\* fetch_transactions (lines 34-35)
BeginYear ==
    /\ pc = "year"
    /\ yi <= Len(years_to_fetch)
    /\ fy' = years_to_fetch[yi]
    /\ cbp_data' = <<>>
    /\ ice_data' = <<>>
    /\ ai' = 1
    /\ page' = 1
    /\ all_results' = <<>>
    /\ reqs' = <<>>
    /\ served' = <<>>
    /\ pc' = "fetch"
    /\ UNCHANGED <<argv, exc, dir_exists, files, years_to_fetch, yi, results,
                   remote_left, trace, fs0>>

(* ------------------------- fetch_transactions() ------------------------ *)
RespResults(resp) == Get(resp.body.v, "results", JList(<<>>))
RespMeta(resp) == Get(resp.body.v, "page_metadata", JObj(EmptyDict))
RespHasNext(resp) == Get(RespMeta(resp).v, "hasNext", JBool(FALSE))

\* line 63-68: the request, the status check or the decoding raised
Failed(resp) == resp.kind = "exc"
\* line 70: data.get on a body that is not an object
Raises70(resp) == ~Failed(resp) /\ resp.body.t # "obj"
\* what iterating the results of a page yields at line 71: the elements of
\* a list, the characters of a string, the keys of an object in insertion
\* order
Iterate(x) ==
    CASE x.t = "list" -> x.v
      [] x.t = "str" -> [i \in 1..Len(x.v) |-> JStr(SubSeq(x.v, i, i))]
      [] x.t = "obj" -> [i \in 1..Len(x.k) |-> JStr(x.k[i])]

\* line 71: extend raises TypeError on a value that is not iterable
Raises71(resp) ==
    ~Failed(resp) /\ ~Raises70(resp) /\ RespResults(resp).t \in {"null", "int", "bool"}

\* len(results), lines 72 and 74
ResultsLen(resp) == Len(Iterate(RespResults(resp)))
\* line 74: .get on a page_metadata that is not an object
Raises74(resp) ==
    ~Failed(resp) /\ ~Raises70(resp) /\ ~Raises71(resp) /\ RespMeta(resp).t # "obj"
\* a break condition that forgets the empty page
LastPage_IgnoreEmpty(resp) == ~Truthy(RespHasNext(resp))

\* line 74: the break condition
LastPage(resp) == ~Truthy(RespHasNext(resp)) \/ ResultsLen(resp) = 0

\* a page counter that skips a page
NextPage_Skip(p) == p + 2

\* the page counter after a page that is not the last, line 76
NextPage(p) == p + 1

\* an accumulator that keeps only the latest page
Extend_Replace(acc, rs) == rs

\* the accumulated list after a page, line 71
Extend(acc, rs) == acc \o rs

RecordsIn(resp) ==
    IF ~Failed(resp) /\ ~Raises70(resp) /\ ~Raises71(resp)
    THEN ResultsLen(resp) ELSE 0

\* one iteration of the loop, lines 37-76
FetchPage ==
    /\ pc = "fetch"
    /\ \E resp \in Responses(remote_left) :
        /\ trace' = Append(trace, [ev |-> "request", fy |-> fy,
                                   abbrev |-> AGENCIES[ai][1],
                                   agency |-> AGENCIES[ai][2],
                                   start |-> FISCAL_YEARS[fy].start,
                                   end |-> FISCAL_YEARS[fy].end,
                                   page |-> page, limit |-> 100])
        /\ reqs' = Append(reqs, page)
        /\ served' = Append(served, resp)
        /\ remote_left' = remote_left - RecordsIn(resp)
        /\ IF Failed(resp)
           THEN /\ pc' = "ret"
                /\ UNCHANGED <<exc, page, all_results>>
           ELSE IF Raises70(resp)
           THEN /\ pc' = "crashed"
                /\ exc' = "AttributeError"
                /\ UNCHANGED <<page, all_results>>
           ELSE IF Raises71(resp)
           THEN /\ pc' = "crashed"
                /\ exc' = "TypeError"
                /\ UNCHANGED <<page, all_results>>
           ELSE /\ all_results' = Extend(all_results, Iterate(RespResults(resp)))
                /\ IF Raises74(resp)
                   THEN /\ pc' = "crashed"
                        /\ exc' = "AttributeError"
                        /\ UNCHANGED page
                   ELSE IF LastPage(resp)
                   THEN /\ pc' = "ret"
                        /\ UNCHANGED <<exc, page>>
                   ELSE /\ pc' = "fetch"
                        /\ page' = NextPage(page)
                        /\ UNCHANGED exc
    /\ UNCHANGED <<argv, dir_exists, files, years_to_fetch, yi, results,
                   fy, ai, cbp_data, ice_data, fs0>>

\* line 78 and lines 125-129, then the next agency or the CSV
AssignData ==
    /\ pc = "ret"
    /\ IF AGENCIES[ai][1] = "CBP"
       THEN cbp_data' = all_results /\ UNCHANGED ice_data
       ELSE ice_data' = all_results /\ UNCHANGED cbp_data
    /\ IF ai < Len(AGENCIES)
       THEN ai' = ai + 1 /\ pc' = "fetch"
       ELSE ai' = ai /\ pc' = "save"
    /\ page' = 1
    /\ all_results' = <<>>
    /\ reqs' = <<>>
    /\ served' = <<>>
    /\ UNCHANGED <<argv, exc, dir_exists, files, years_to_fetch, yi, results,
                   fy, remote_left, trace, fs0>>

(* ------------------------------ save_to_csv() -------------------------- *)
\* lines 94-99 / 102-107, for a record that is a dict
Row(label, t) ==
    << label,
       FormatCell(Get(t.v, "Award ID", JStr(""))),
       FormatCell(Get(t.v, "Recipient Name", JStr(""))),
       FormatCell(Get(t.v, "Transaction Amount", JInt(0))),
       FormatCell(Get(t.v, "Action Date", JStr(""))),
       FormatCell(Get(t.v, "Mod", JStr(""))),
       FormatCell(Get(t.v, "product_or_service_description", JStr(""))),
       FormatCell(Get(t.v, "naics_description", JStr(""))),
       FormatCell(Get(t.v, "Transaction Description", JStr(""))) >>

\* t.get raises AttributeError on an element that is not a dict
RowRaises(t) == t.t # "obj"

\* the number of leading elements whose row is written
RECURSIVE Writable(_)
Writable(data) ==
    IF data = <<>> \/ RowRaises(data[1]) THEN 0 ELSE 1 + Writable(Tail(data))

\* the rows written by one of the loops before it ends or raises
Rows(label, data) == [i \in 1..Writable(data) |-> Row(label, data[i])]

\* save_to_csv raises out of the with block
SaveRaises(cbp, ice) == Writable(cbp) < Len(cbp) \/ Writable(ice) < Len(ice)

\* a writer that puts the ICE rows first
CsvContent_IceFirst(cbp, ice) ==
    <<Header>> \o Rows("ICE", ice)
               \o (IF Writable(ice) = Len(ice) THEN Rows("CBP", cbp) ELSE <<>>)

\* what the file holds when the with block is left, lines 85-107
CsvContent(cbp, ice) ==
    <<Header>> \o Rows("CBP", cbp)
               \o (IF Writable(cbp) = Len(cbp) THEN Rows("ICE", ice) ELSE <<>>)

\* a file opened in append mode
WriteFile_Append(old, content) == [exists |-> TRUE, rows |-> old.rows \o content]

\* open(csv_path, "w"): the file holds what this call writes
WriteFile(old, content) == [exists |-> TRUE, rows |-> content]

\* line 131
SaveCsv ==
    /\ pc = "save"
    /\ files' = [files EXCEPT ![fy] = WriteFile(files[fy], CsvContent(cbp_data, ice_data))]
    /\ trace' = Append(trace, [ev |-> "csv", fy |-> fy])
    /\ IF SaveRaises(cbp_data, ice_data)
       THEN pc' = "crashed" /\ exc' = "AttributeError"
       ELSE pc' = "totals" /\ UNCHANGED exc
    /\ UNCHANGED <<argv, dir_exists, years_to_fetch, yi, results,
                   RunLocals, fs0>>

\* t.get("Transaction Amount", 0) or 0
AmountOr0(t) ==
    LET a == Get(t.v, "Transaction Amount", JInt(0))
    IN IF Truthy(a) THEN a.v ELSE 0

RECURSIVE Total(_)
Total(data) == IF data = <<>> THEN 0 ELSE AmountOr0(data[1]) + Total(Tail(data))

\* lines 133-147 and 183
Totals ==
    /\ pc = "totals"
    /\ LET r == [fy |-> fy,
                 cbp_total |-> Total(cbp_data), cbp_count |-> Len(cbp_data),
                 ice_total |-> Total(ice_data), ice_count |-> Len(ice_data)]
       IN /\ results' = Append(results, r)
          /\ trace' = Append(trace, [ev |-> "totals", fy |-> fy,
                                     cbp_total |-> r.cbp_total,
                                     ice_total |-> r.ice_total])
    /\ cbp_data' = <<>>
    /\ ice_data' = <<>>
    /\ yi' = yi + 1
    /\ pc' = "year"
    /\ UNCHANGED <<argv, exc, dir_exists, files, years_to_fetch,
                   fy, ai, page, all_results, reqs, served, remote_left, fs0>>

\* lines 185-195
Summary ==
    /\ pc = "year"
    /\ yi > Len(years_to_fetch)
    /\ trace' = trace \o [i \in 1..Len(results) |->
                            [ev |-> "summary_row", fy |-> results[i].fy]]
    /\ pc' = "done"
    /\ UNCHANGED <<argv, exc, dir_exists, files, years_to_fetch, yi, results,
                   RunLocals, fs0>>

Next ==
    \/ MainAll
    \/ MainYears
    \/ MainUsage
    \/ MainValueError
    \/ MainDefault
    \/ BeginYear
    \/ FetchPage
    \/ AssignData
    \/ SaveCsv
    \/ Totals
    \/ Summary

Spec == Init /\ [][Next]_vars

NextYears ==
    \/ MainYears
    \/ MainDefault
    \/ BeginYear
    \/ FetchPage
    \/ AssignData
    \/ SaveCsv
    \/ Totals
    \/ Summary

SpecYears == InitYears /\ [][NextYears]_vars

TypeOK == pc \in {"start", "year", "fetch", "ret", "save", "totals", "done", "crashed"}

(* ============================ properties ============================== *)
Last(s) == s[Len(s)]
Front(s) == SubSeq(s, 1, Len(s) - 1)

\* the page was decoded and its results could be added to the list
PageOK(resp) == ~Failed(resp) /\ ~Raises70(resp) /\ ~Raises71(resp)
PageSize(resp) == ResultsLen(resp)
ReportsNext(resp) ==
    PageOK(resp) /\ RespMeta(resp).t = "obj" /\ Truthy(RespHasNext(resp))
\* a page after which the specification says the call stops
StopsAt(resp) == ~PageOK(resp) \/ PageSize(resp) = 0 \/ ~ReportsNext(resp)

RECURSIVE ConcatResults(_)
ConcatResults(sv) ==
    IF sv = <<>> THEN <<>>
    ELSE (IF PageOK(sv[1]) THEN Iterate(RespResults(sv[1])) ELSE <<>>)
         \o ConcatResults(Tail(sv))

RECURSIVE SumSizes(_)
SumSizes(sv) == IF sv = <<>> THEN 0 ELSE PageSize(sv[1]) + SumSizes(Tail(sv))

AllOK(sv) == \A i \in 1..Len(sv) : PageOK(sv[i])

\* C1: within one call of fetch_transactions the requests carry the page
\* numbers 1, 2, 3, ... without gap or repeat, no request follows a page
\* that failed, was empty or reported no further page, and when the last
\* page succeeded the returned list is the concatenation, in page order,
\* of the results of all pages served.
C1_Pagination ==
    /\ Len(reqs) = Len(served)
    /\ \A i \in 1..Len(reqs) : reqs[i] = i
    /\ \A i \in 1..(Len(served) - 1) : ~StopsAt(served[i])
    /\ (pc = "ret" /\ served # <<>> /\ PageOK(Last(served)))
          => all_results = ConcatResults(served)

C1_Witness ==
    /\ pc = "ret"
    /\ Len(served) >= 2
    /\ PageOK(Last(served))
    /\ Len(all_results) >= 2

\* C2 as claimed: a call that is served successful pages only ends on the
\* first empty page, so that on pages of sizes s1..sn of which only the last
\* is empty it issues n requests and returns s1+...+sn records.
C2_Original ==
    (pc = "ret" /\ served # <<>> /\ AllOK(served))
        => /\ PageSize(Last(served)) = 0
           /\ \A i \in 1..(Len(served) - 1) : PageSize(served[i]) > 0
           /\ Len(all_results) = SumSizes(served)
           /\ Len(reqs) = Len(served)

\* a page as the endpoint is described: a JSON object with a list of
\* results and with page metadata that is an object or is left out
WellFormed(resp) ==
    PageOK(resp) /\ RespResults(resp).t = "list" /\ RespMeta(resp).t = "obj"

AllWellFormed(sv) == \A i \in 1..Len(sv) : WellFormed(sv[i])

\* C2 amended: over pages that are JSON objects with a results list and
\* with page metadata that is an object or left out, a call requests pages
\* 1, 2, ... once each, raises no error, holds as many records as the pages
\* served so far, and has ended exactly when the latest page is empty or
\* does not report a further page, every earlier page being non-empty and
\* reporting a further page.  So when every non-empty page reports a
\* further page, the call ends on the first empty page with n requests and
\* s1+...+sn records.
C2_UntilEmptyPage ==
    (served # <<>> /\ AllWellFormed(served))
        => /\ pc \in {"fetch", "ret"}
           /\ exc = "none"
           /\ reqs = [i \in 1..Len(served) |-> i]
           /\ Len(all_results) = SumSizes(served)
           /\ \A i \in 1..(Len(served) - 1) :
                   PageSize(served[i]) > 0 /\ ReportsNext(served[i])
           /\ pc = "ret"
                <=> (PageSize(Last(served)) = 0 \/ ~ReportsNext(Last(served)))
           /\ (pc = "ret" /\ \A i \in 1..Len(served) :
                                  PageSize(served[i]) > 0 => ReportsNext(served[i]))
                => PageSize(Last(served)) = 0

C2_Witness ==
    /\ pc = "ret"
    /\ Len(served) = 3
    /\ AllWellFormed(served)
    /\ PageSize(served[1]) = 1 /\ PageSize(served[2]) = 1 /\ PageSize(served[3]) = 0
    /\ ReportsNext(served[1]) /\ ReportsNext(served[2])
    /\ Len(all_results) = 2
    /\ reqs = <<1, 2, 3>>

\* the list handed to the caller by the return at line 78
Returned == IF AGENCIES[ai][1] = "CBP" THEN cbp_data' ELSE ice_data'

\* C3: when the request for page k raises, the call returns exactly the
\* records of pages 1..k-1, page k was requested once, and the return
\* follows without any further request.
C3_FailureKeepsPrefix ==
    [][ (pc = "ret" /\ served # <<>> /\ Failed(Last(served)))
          => /\ all_results = ConcatResults(Front(served))
             /\ reqs = [i \in 1..Len(served) |-> i]
             /\ Returned = ConcatResults(Front(served))
             /\ trace' = trace ]_vars

C3_Witness ==
    /\ pc = "ret"
    /\ Len(served) = 3
    /\ Failed(Last(served))
    /\ Len(all_results) = 2

EventsOf(kind) == SelectSeq(trace, LAMBDA e : e.ev = kind)
YearsOf(evs) == [i \in 1..Len(evs) |-> evs[i].fy]

\* C4 as claimed: whatever the remote source answers, the run does not
\* abort, and a finished run has written the CSV of every selected year in
\* the order given and printed one summary row per selected year.
C4_FetchFailureNonFatal ==
    /\ pc # "crashed"
    /\ (pc = "done" /\ years_to_fetch # <<>>)
          => /\ YearsOf(EventsOf("csv")) = years_to_fetch
             /\ YearsOf(EventsOf("summary_row")) = years_to_fetch

\* C5 as claimed: every argument list selects, without error, the maximum
\* configured year (no argument), all configured years in descending order
\* ("all" first), or the recognized years among the arguments in the order
\* given, and every selected year is a configured one.
C5_Selection ==
    pc # "start"
        => /\ exc # "ValueError"
           /\ \A i \in 1..Len(years_to_fetch) : years_to_fetch[i] \in DOMAIN FISCAL_YEARS
           /\ argv = <<>> => years_to_fetch = <<2026>>
           /\ IsAll(argv) => years_to_fetch = <<2026, 2025, 2024, 2023, 2022, 2021>>
           /\ (argv # <<>> /\ ~IsAll(argv))
                => years_to_fetch = SelectSeq(
                       [i \in 1..Len(argv) |-> IF IsDigit(argv[i]) /\ ~IntRaises(argv[i])
                                               THEN IntOf(argv[i]) ELSE 0],
                       LAMBDA y : y \in DOMAIN FISCAL_YEARS)

\* C6 as claimed: a run that ends with the usage message has issued no
\* request, written no file, and left the file system, output directory
\* included, as it found it.
C6_UsageNoSideEffect ==
    (pc = "done" /\ years_to_fetch = <<>>)
        => /\ trace = << [ev |-> "usage"] >>
           /\ files = fs0.files
           /\ dir_exists = fs0.dir

\* the text of the Award ID cell of a record
AwardCell(t) == IF "Award ID" \in DOMAIN t.v /\ t.v["Award ID"].t = "str"
                THEN t.v["Award ID"].v ELSE ""

\* C7: the CSV written for a fiscal year has one header row, then one row
\* per CBP record in fetch order labelled CBP, then one row per ICE record
\* in fetch order labelled ICE.
C7_CsvLayout ==
    pc = "totals"
        => LET rows == files[fy].rows
               n == Len(cbp_data)
               m == Len(ice_data)
           IN /\ files[fy].exists
              /\ Len(rows) = n + m + 1
              /\ rows[1] = Header
              /\ \A i \in 1..n : rows[1 + i][1] = "CBP" /\ rows[1 + i][2] = AwardCell(cbp_data[i])
              /\ \A i \in 1..m :
                    rows[1 + n + i][1] = "ICE" /\ rows[1 + n + i][2] = AwardCell(ice_data[i])

C7_Witness ==
    /\ pc = "totals"
    /\ Len(cbp_data) >= 1
    /\ Len(ice_data) >= 1
    /\ Len(files[fy].rows) = 3

\* reading the amount column back
AmountRange == -100..100
IsNumberCell(c) == \E n \in AmountRange : ToString(n) = c
ParseCell(c) == CHOOSE n \in AmountRange : ToString(n) = c

RECURSIVE ColumnSum(_)
ColumnSum(rows) ==
    IF rows = <<>> THEN 0 ELSE ParseCell(rows[1][AmountColumn]) + ColumnSum(Tail(rows))

\* C8 as claimed: every amount cell of the written CSV is a number, 0 for a
\* record whose amount is absent or null, and the column sums to the CBP
\* total plus the ICE total returned for that year.
C8_ColumnSumIsTotal ==
    (pc = "year" /\ results # <<>>)
        => LET r == Last(results)
               body == Tail(files[r.fy].rows)
           IN /\ \A i \in 1..Len(body) : IsNumberCell(body[i][AmountColumn])
              /\ ColumnSum(body) = r.cbp_total + r.ice_total

\* C9: after the CSV of a fiscal year is written the file holds the header
\* and the rows of this fetch and nothing else, whatever the file held
\* before.
C9_Overwrite ==
    pc = "totals"
        => files[fy].rows =
              <<Header>> \o [i \in 1..Len(cbp_data) |-> Row("CBP", cbp_data[i])]
                         \o [i \in 1..Len(ice_data) |-> Row("ICE", ice_data[i])]

C9_Witness ==
    /\ pc = "totals"
    /\ fs0.files[fy].exists
    /\ Len(files[fy].rows) < Len(fs0.files[fy].rows)
    /\ Len(files[fy].rows) >= 2

\* requests, CSV writes and totals, in the order they happened
IoTrace == SelectSeq(trace, LAMBDA e : e.ev \in {"request", "csv", "totals"})

\* C10: the events of a run come year by year in the order selected; within
\* a year first the CBP requests, then the ICE requests, then the CSV
\* write, then the totals; a request follows a CSV write only after that
\* year's totals, as the first CBP request of the next year.
C10_EventOrder ==
    LET tr == IoTrace
    IN /\ \A i \in 1..Len(tr) :
            CASE tr[i].ev = "request" ->
                    IF i = 1 THEN tr[i].abbrev = "CBP" /\ tr[i].page = 1
                    ELSE \/ /\ tr[i - 1].ev = "totals"
                            /\ tr[i].abbrev = "CBP" /\ tr[i].page = 1
                         \/ /\ tr[i - 1].ev = "request"
                            /\ tr[i - 1].fy = tr[i].fy
                            /\ \/ tr[i - 1].abbrev = tr[i].abbrev /\ tr[i].page = tr[i - 1].page + 1
                               \/ tr[i - 1].abbrev = "CBP" /\ tr[i].abbrev = "ICE" /\ tr[i].page = 1
              [] tr[i].ev = "csv" ->
                    i > 1 /\ tr[i - 1].ev = "request" /\ tr[i - 1].abbrev = "ICE"
                          /\ tr[i - 1].fy = tr[i].fy
              [] tr[i].ev = "totals" ->
                    i > 1 /\ tr[i - 1].ev = "csv" /\ tr[i - 1].fy = tr[i].fy
       /\ LET written == YearsOf(EventsOf("csv"))
          IN /\ Len(written) <= Len(years_to_fetch)
             /\ written = SubSeq(years_to_fetch, 1, Len(written))
       /\ \A i \in 1..Len(tr) :
             tr[i].ev = "request"
                => tr[i].fy = years_to_fetch[1 + Len(SelectSeq(SubSeq(tr, 1, i),
                                                      LAMBDA e : e.ev = "totals"))]

C10_Witness ==
    /\ pc = "done"
    /\ Len(EventsOf("csv")) = 2
    /\ Len(EventsOf("request")) >= 5

====
